---- MODULE Spec2Model ----
(***************************************************************************)
(* card-stack: the CSS shorthand resolver cssShorthand of DS23.tsx, with   *)
(* the class cache of the css`` and cx functions it calls.                 *)
(*                                                                         *)
(* A JavaScript string is a sequence of one-character strings, so that     *)
(* split, replace, startsWith and slice are computed character by          *)
(* character as the engine computes them.  A JavaScript value is a record  *)
(* with one field: [undef |-> TRUE] for undefined, [str |-> s] for a       *)
(* string, [num |-> n] for a number, [arr |-> a] for an array,             *)
(* [bool |-> b] for a boolean, [fn |-> f] for a function, and              *)
(* [css |-> block] for the class name that css`` derives from a            *)
(* declaration block.                                                      *)
(***************************************************************************)
EXTENDS Integers, Sequences, FiniteSets, Bags, TLC

VARIABLES
    props,      \* the CssShorthandProps descriptor handed to cssShorthand
    pc,         \* "call" before cssShorthand has run, "done" after
    result,     \* what the call produced: a returned output or a thrown TypeError
    registered, \* the class cache: class name -> the declarations registered for it
    resolved,   \* the calls made so far, each with its descriptor and its outcome
    stack,            \* stackStorage.stack: the decoded path of the page
    server,           \* the ids of the cards the remote table holds, oldest first
    created,          \* how many card ids the remote table has handed out
    cardsUndoHistory, \* useCardStorage's state: card lists, the current one first
    orderedIds,       \* the card order kept in local storage
    statusMessage,    \* App's statusMessage
    cardEditing,      \* useTextEditing: isEditing, and the handler its promise resumes
    modalWindow,      \* the dialog on screen, and the handler its promise resumes
    inFlight,         \* the bag of remote requests that have not settled yet
    inFlightLimit,    \* how many requests a run lets be in flight together
    startedLast,      \* history: the load started last, while loads are in flight
    lastAction,       \* the handler or completion that ran last
    data,             \* useModalWindow's state: the dialog on screen and its promise
    promises,         \* the promises alert, confirm and prompt have returned
    microtasks,       \* the promise reactions that are queued, the next one first
    input,            \* the current value of the prompt's input
    textEditing,      \* useTextEditing's state and its resolveRef
    editPromises      \* the promises edit has returned

resolverVars == <<props, pc, result, registered, resolved>>

appVars ==
    <<stack, server, created, cardsUndoHistory, orderedIds, statusMessage,
      cardEditing, modalWindow, inFlight, inFlightLimit, startedLast,
      lastAction>>

modalVars == <<data, promises, microtasks, input>>

editingVars == <<textEditing, editPromises>>

hookVars == <<modalVars, editingVars>>

vars == <<resolverVars, appVars, hookVars>>

----------------------------------------------------------------------------
(* Bounds of the enumerated inputs.                                        *)

\* lengths are 0 and 10*k px / 10*k rem for k in 1..MaxLengthMult
MaxLengthMult == 1
\* grow-N is enumerated for N in 1..MaxGrow
MaxGrow == 3
\* a component is rendered, and cssShorthand called, at most MaxCalls times
MaxCalls == 3
\* the remote table hands out the card ids 1..MaxCards
MaxCards == 2
\* the reorder buttons are pressed while the undo history has fewer entries
MaxHistory == 2
\* at most MaxInFlight remote requests are in flight at a time
MaxInFlight == 1
\* alert, confirm and prompt are called at most MaxDialogs times in a run
MaxDialogs == 2
\* edit is called at most MaxEdits times in a run
MaxEdits == 3

----------------------------------------------------------------------------
(* JavaScript values and string primitives.                                *)

Undef == [undef |-> TRUE]
Str(s) == [str |-> s]
Num(n) == [num |-> n]
Arr(a) == [arr |-> a]
Bool(b) == [bool |-> b]
Fn(f) == [fn |-> f]

IsUndef(v) == "undef" \in DOMAIN v
IsStr(v) == "str" \in DOMAIN v
IsNum(v) == "num" \in DOMAIN v
IsArr(v) == "arr" \in DOMAIN v

Digit == <<"0", "1", "2", "3", "4", "5", "6", "7", "8", "9">>

\* Number.prototype.toString of a non-negative integer (what `${n}` yields)
RECURSIVE NumberToString(_)
NumberToString(n) ==
    IF n < 10 THEN <<Digit[n + 1]>>
    ELSE NumberToString(n \div 10) \o <<Digit[(n % 10) + 1]>>

\* the characters the regular expression class \s matches (those modelled)
IsSpace(c) == c \in {" ", "\t"}

\* String.prototype.split(/\s+/): the pieces between maximal runs of
\* whitespace; a leading or trailing run yields an empty first or last piece,
\* and the empty string yields one empty piece.
RECURSIVE splitFrom(_, _, _, _)
splitFrom(s, i, cur, acc) ==
    IF i > Len(s) THEN Append(acc, cur)
    ELSE IF IsSpace(s[i])
         THEN IF i > 1 /\ IsSpace(s[i - 1])
              THEN splitFrom(s, i + 1, cur, acc)
              ELSE splitFrom(s, i + 1, <<>>, Append(acc, cur))
         ELSE splitFrom(s, i + 1, Append(cur, s[i]), acc)

split(s) == splitFrom(s, 1, <<>>, <<>>)

\* String.prototype.replace(pat, rep) with a one-character string pattern:
\* only the FIRST occurrence is replaced.
RECURSIVE replaceFrom(_, _, _, _)
replaceFrom(s, i, pat, rep) ==
    IF i > Len(s) THEN s
    ELSE IF s[i] = pat
         THEN SubSeq(s, 1, i - 1) \o <<rep>> \o SubSeq(s, i + 1, Len(s))
         ELSE replaceFrom(s, i + 1, pat, rep)

replace(s, pat, rep) == replaceFrom(s, 1, pat, rep)

\* String.prototype.startsWith
startsWith(s, prefix) ==
    /\ Len(s) >= Len(prefix)
    /\ SubSeq(s, 1, Len(prefix)) = prefix

\* String.prototype.slice(n)
slice(s, n) == SubSeq(s, n + 1, Len(s))

\* array destructuring reads a missing element as undefined
Element(arr, i) == IF i <= Len(arr) THEN Str(arr[i]) ELSE Undef

----------------------------------------------------------------------------
(* String literals of DS23.tsx.                                            *)

s_center == <<"c", "e", "n", "t", "e", "r">>
s_center_x == s_center \o <<"-", "x">>
s_center_y == s_center \o <<"-", "y">>
s_stretch == <<"s", "t", "r", "e", "t", "c", "h">>
s_flex == <<"f", "l", "e", "x">>
s_row == <<"r", "o", "w">>
s_column == <<"c", "o", "l", "u", "m", "n">>
s_wrap == <<"w", "r", "a", "p">>
s_row_wrap == s_row \o <<" ">> \o s_wrap
s_column_wrap == s_column \o <<" ">> \o s_wrap
s_grow == <<"g", "r", "o", "w">>
s_grow_dash == s_grow \o <<"-">>
s_auto == <<"a", "u", "t", "o">>
s_px == <<"p", "x">>
s_rem == <<"r", "e", "m">>

\* faulty variant: the box-sizing declaration has no value
s_border_box_missing == <<>>

\* line 116: the value of the fixed box-sizing declaration
s_border_box == <<"b", "o", "r", "d", "e", "r", "-", "b", "o", "x">>

\* the keys of the lookup table, `${Flow}/${Align}`
k_x_stretch == <<"x", "/">> \o s_stretch
k_y_stretch == <<"y", "/">> \o s_stretch
k_x_center == <<"x", "/">> \o s_center
k_y_center == <<"y", "/">> \o s_center
k_x_wrap_stretch == <<"x", "-">> \o s_wrap \o <<"/">> \o s_stretch
k_y_wrap_stretch == <<"y", "-">> \o s_wrap \o <<"/">> \o s_stretch
k_x_wrap_center == <<"x", "-">> \o s_wrap \o <<"/">> \o s_center
k_y_wrap_center == <<"y", "-">> \o s_wrap \o <<"/">> \o s_center

----------------------------------------------------------------------------
(* cssShorthand, DS23.tsx lines 40-126.                                    *)

\* faulty variant: the wrap entries lose their "wrap"
flexTable_noWrap(direction) ==
    CASE direction \in {k_x_stretch, k_x_wrap_stretch} -> Arr(<<Str(s_row), Undef>>)
      [] direction \in {k_y_stretch, k_y_wrap_stretch} -> Arr(<<Str(s_column), Undef>>)
      [] direction \in {k_x_center, k_x_wrap_center} -> Arr(<<Str(s_row), Str(s_center)>>)
      [] direction \in {k_y_center, k_y_wrap_center} -> Arr(<<Str(s_column), Str(s_center)>>)
      [] OTHER -> Undef

\* faulty variant: a lookup miss falls back to an empty array, `?? []`
flexTable_lenient(direction) ==
    CASE direction = k_x_stretch -> Arr(<<Str(s_row), Undef>>)
      [] direction = k_y_stretch -> Arr(<<Str(s_column), Undef>>)
      [] direction = k_x_center -> Arr(<<Str(s_row), Str(s_center)>>)
      [] direction = k_y_center -> Arr(<<Str(s_column), Str(s_center)>>)
      [] direction = k_x_wrap_stretch -> Arr(<<Str(s_row_wrap), Undef>>)
      [] direction = k_y_wrap_stretch -> Arr(<<Str(s_column_wrap), Undef>>)
      [] direction = k_x_wrap_center -> Arr(<<Str(s_row_wrap), Str(s_center)>>)
      [] direction = k_y_wrap_center -> Arr(<<Str(s_column_wrap), Str(s_center)>>)
      [] OTHER -> Arr(<<Undef, Undef>>)

\* lines 70-79: the object literal indexed by direction.  A key that is not
\* an own property yields undefined (or an inherited member of
\* Object.prototype, none of which is iterable): Undef stands for both.
flexTable(direction) ==
    CASE direction = k_x_stretch -> Arr(<<Str(s_row), Undef>>)
      [] direction = k_y_stretch -> Arr(<<Str(s_column), Undef>>)
      [] direction = k_x_center -> Arr(<<Str(s_row), Str(s_center)>>)
      [] direction = k_y_center -> Arr(<<Str(s_column), Str(s_center)>>)
      [] direction = k_x_wrap_stretch -> Arr(<<Str(s_row_wrap), Undef>>)
      [] direction = k_y_wrap_stretch -> Arr(<<Str(s_column_wrap), Undef>>)
      [] direction = k_x_wrap_center -> Arr(<<Str(s_row_wrap), Str(s_center)>>)
      [] direction = k_y_wrap_center -> Arr(<<Str(s_column_wrap), Str(s_center)>>)
      [] OTHER -> Undef

\* line 70: `[flexFlow, alignItems] = v` throws a TypeError when v is not
\* iterable; the `!` of line 79 is erased by the compiler.
destructureThrows(v) == ~IsArr(v)

\* faulty variant: display is set in the keyword branches only
displayOf_keywordOnly(flex) ==
    IF IsUndef(flex) \/ flex.str \notin {s_center, s_center_x, s_center_y}
    THEN Undef
    ELSE Str(s_flex)

\* faulty variant: display is set outside the `if (props.flex != null)`
displayOf_always(flex) == Str(s_flex)

\* lines 51-52: display is set whenever flex is given
displayOf(flex) == IF IsUndef(flex) THEN Undef ELSE Str(s_flex)

\* faulty variant: center-x copies the align-items of center
flexKeyword_copied(flex) ==
    CASE flex = s_center -> <<Str(s_column), Str(s_center), Str(s_center)>>
      [] flex = s_center_x -> <<Str(s_row), Str(s_center), Str(s_center)>>
      [] flex = s_center_y -> <<Str(s_column), Str(s_stretch), Str(s_center)>>

\* lines 54-65: the three keyword values; <<flexFlow, alignItems, justifyContent>>
flexKeyword(flex) ==
    CASE flex = s_center -> <<Str(s_column), Str(s_center), Str(s_center)>>
      [] flex = s_center_x -> <<Str(s_row), Str(s_stretch), Str(s_center)>>
      [] flex = s_center_y -> <<Str(s_column), Str(s_stretch), Str(s_center)>>

\* line 68: `[direction, gap] = props.flex.split(/\s+/)`
directionAndGap(flex) ==
    LET parts == split(flex)
    IN  <<Element(parts, 1), Element(parts, 2)>>

\* lines 41-81: the locals after the flex block, or the TypeError of line 70
flexLocals(flex) ==
    LET none == [threw |-> FALSE, display |-> displayOf(flex),
                 flexFlow |-> Undef, gap |-> Undef,
                 alignItems |-> Undef, justifyContent |-> Undef]
    IN  IF IsUndef(flex) THEN none
        ELSE IF flex.str \in {s_center, s_center_x, s_center_y}
        THEN LET kw == flexKeyword(flex.str)
             IN  [none EXCEPT !.flexFlow = kw[1], !.alignItems = kw[2],
                              !.justifyContent = kw[3]]
        ELSE LET dg == directionAndGap(flex.str)
                 entry == flexTable(dg[1].str)
             IN  IF destructureThrows(entry)
                 THEN [none EXCEPT !.threw = TRUE]
                 ELSE [none EXCEPT !.flexFlow = entry.arr[1], !.gap = dg[2],
                                   !.alignItems = entry.arr[2]]

\* faulty variant: slice(4) keeps the dash
growN_offByOne(size) == Str(slice(size, 4))

\* line 91: `props.size.slice(5)`, the N of "grow-N"
growN(size) == Str(slice(size, 5))

\* line 92: the three-word test on `props.size.split(/\s+/)`
isThreeWords(size) == Len(split(size)) = 3

\* faulty variant: the one-word values grow
oneWord_grows(size) == <<Num(0), Str(size), Num(1)>>

\* line 97: the one-word values; <<flexShrink, flexBasis, flexGrow>>
oneWord(size) == <<Num(0), Str(size), Num(0)>>

\* faulty variant: the three locals are initialised to the one-word defaults
sizeLocals_defaulted(size) ==
    IF IsUndef(size) THEN <<Num(0), Str(s_auto), Num(0)>>
    ELSE IF size.str = s_grow THEN <<Num(0), Num(0), Num(1)>>
    ELSE IF startsWith(size.str, s_grow_dash)
         THEN <<Num(0), Num(0), growN(size.str)>>
    ELSE IF isThreeWords(size.str)
         THEN LET parts == split(size.str)
              IN  <<Str(parts[1]), Str(parts[2]), Str(parts[3])>>
    ELSE oneWord(size.str)

\* lines 84-99: <<flexShrink, flexBasis, flexGrow>> after the size block
sizeLocals(size) ==
    IF IsUndef(size) THEN <<Undef, Undef, Undef>>
    ELSE IF size.str = s_grow THEN <<Num(0), Num(0), Num(1)>>
    ELSE IF startsWith(size.str, s_grow_dash)
         THEN <<Num(0), Num(0), growN(size.str)>>
    ELSE IF isThreeWords(size.str)
         THEN LET parts == split(size.str)
              IN  <<Str(parts[1]), Str(parts[2]), Str(parts[3])>>
    ELSE oneWord(size.str)

\* the grammar of the type Length: "0", or digits followed by px or rem
IsLength(s) ==
    \/ s = <<"0">>
    \/ \E n \in 1..(Len(s) - 1) :
          /\ \A i \in 1..n : \E d \in 1..10 : s[i] = Digit[d]
          /\ SubSeq(s, n + 1, Len(s)) \in {s_px, s_rem}

\* faulty variants: the slash is left in place
gapValue_raw(gap) == gap

\* faulty variant: a gap outside the Length grammar is dropped
gapValue_validated(gap) ==
    IF IsUndef(gap) THEN Undef
    ELSE IF \A part \in {split(replace(gap.str, "/", " "))[i] :
                             i \in 1..Len(split(replace(gap.str, "/", " ")))} :
               IsLength(part)
         THEN Str(replace(gap.str, "/", " "))
         ELSE Undef

paddingValue_raw(padding) == padding

\* lines 107 and 117: `v?.replace("/", " ")`
gapValue(gap) == IF IsUndef(gap) THEN Undef ELSE Str(replace(gap.str, "/", " "))

paddingValue(padding) ==
    IF IsUndef(padding) THEN Undef ELSE Str(replace(padding.str, "/", " "))

\* the text a value contributes to the css`` template: nothing for
\* undefined, the decimal numeral for a number, the string itself otherwise
Interpolate(v) ==
    IF IsUndef(v) THEN <<>>
    ELSE IF IsNum(v) THEN NumberToString(v.num)
    ELSE v.str

\* lines 104-118: the declaration block of the css`` template.  A
\* declaration whose value is empty is no declaration of the generated rule,
\* so the block is the function from the properties that got a value.
css(l, sz, padding) ==
    LET text ==
            ("display" :> Interpolate(l.display))
         @@ ("flex-flow" :> Interpolate(l.flexFlow))
         @@ ("gap" :> Interpolate(gapValue(l.gap)))
         @@ ("flex-basis" :> Interpolate(sz[2]))
         @@ ("flex-grow" :> Interpolate(sz[3]))
         @@ ("flex-shrink" :> Interpolate(sz[1]))
         @@ ("align-items" :> Interpolate(l.alignItems))
         @@ ("justify-content" :> Interpolate(l.justifyContent))
         @@ ("box-sizing" :> s_border_box)
         @@ ("padding" :> Interpolate(paddingValue(padding)))
    IN  [p \in {q \in DOMAIN text : text[q] # <<>>} |-> text[p]]

\* faulty variant: the class name is derived from the display declaration
\* alone, so that different blocks share a name
ClassName_coarse(block) ==
    [css |-> [q \in DOMAIN block \cap {"display"} |-> block[q]]]

\* lines 104-118: the class name css`` gives a declaration block, "css-"
\* followed by a hash of the block's text: equal blocks get equal names
\* (the hash is taken to be free of collisions)
ClassName(block) == [css |-> block]

\* lines 104-118: css`` registers the block under its name unless the cache
\* already holds that name
insertStyles(cache, block) ==
    IF ClassName(block) \in DOMAIN cache
    THEN cache
    ELSE (ClassName(block) :> block) @@ cache

\* lines 103-121: the class names cx is given, in the order of its
\* arguments, undefined skipped and arrays flattened
RECURSIVE classnames(_)
classnames(args) ==
    IF args = <<>> THEN <<>>
    ELSE LET first == Head(args)
         IN  (IF IsUndef(first) THEN <<>>
              ELSE IF IsArr(first) THEN classnames(first.arr)
              ELSE <<first>>) \o classnames(Tail(args))

\* the declarations in effect when the blocks are written one after the
\* other in one rule: a later declaration of a property replaces an earlier
RECURSIVE Cascade(_)
Cascade(blocks) ==
    IF blocks = <<>> THEN <<>>
    ELSE blocks[Len(blocks)] @@ Cascade(SubSeq(blocks, 1, Len(blocks) - 1))

\* faulty variant: the blocks are concatenated in the reverse order
Concatenated_reversed(blocks) ==
    IF blocks = <<>> THEN <<>>
    ELSE Cascade([i \in 1..Len(blocks) |-> blocks[Len(blocks) + 1 - i]])

\* lines 103-121: cx concatenates the registered blocks of its class names
\* in the order of the names
Concatenated(blocks) == Cascade(blocks)

\* lines 103-121: cx.  With fewer than two registered names the names are
\* returned as they are; otherwise the registered blocks are concatenated
\* in the order of the names and registered as one new class, which follows
\* the names that are not registered.
cx(cache, args) ==
    LET names == classnames(args)
        isRegistered(n) == n \in DOMAIN cache
        isRaw(n) == n \notin DOMAIN cache
        regs == SelectSeq(names, isRegistered)
        raw == SelectSeq(names, isRaw)
        merged == Concatenated([i \in 1..Len(regs) |-> cache[regs[i]]])
    IN  IF Len(regs) < 2
        THEN [className |-> names, registered |-> cache]
        ELSE [className |-> Append(raw, ClassName(merged)),
              registered |-> insertStyles(cache, merged)]

\* faulty variant: readOnly copies disabled
passthrough_copied(p) ==
    [tag |-> p.tag, title |-> p.title, onClick |-> p.onClick,
     onInput |-> p.onInput, value |-> p.value, disabled |-> p.disabled,
     readOnly |-> p.disabled]

\* the later DS23.tsx, lines 132-138: the fields handed through
passthrough(p) ==
    [tag |-> p.tag, title |-> p.title, onClick |-> p.onClick,
     onInput |-> p.onInput, value |-> p.value, disabled |-> p.disabled,
     readOnly |-> p.readOnly]

\* lines 40-126: the call either throws at line 70, before css`` is
\* reached, or returns an output; `style` is the declaration block of the
\* css`` template, `className` the class names cx returns.  The cache after
\* the call is returned with the outcome.
cssShorthand(p, cache) ==
    LET l == flexLocals(p.flex)
        block == css(l, sizeLocals(p.size), p.padding)
        merged == cx(insertStyles(cache, block),
                     <<ClassName(block), p.class, p.className>>)
    IN  IF l.threw
        THEN [out |-> [kind |-> "throw"], registered |-> cache]
        ELSE [out |-> [kind |-> "return", style |-> block,
                       className |-> merged.className] @@ passthrough(p),
              registered |-> merged.registered]

----------------------------------------------------------------------------
(* The descriptors the call is made with.                                  *)

Lengths ==
    {<<"0">>} \cup
    UNION {{NumberToString(10 * k) \o s_px, NumberToString(10 * k) \o s_rem} :
           k \in 1..MaxLengthMult}

\* `${Length}/${Length}`
LengthPairs == {a \o <<"/">> \o b : a \in Lengths, b \in Lengths}

FlexBasis == {s_auto} \cup Lengths

\* lengths whose unit the type Length does not allow
BadLengths == {<<"5", "e", "m">>, <<"3", "p", "t">>}

Keys ==
    {k_x_stretch, k_y_stretch, k_x_center, k_y_center,
     k_x_wrap_stretch, k_y_wrap_stretch, k_x_wrap_center, k_y_wrap_center}

\* first tokens that are not keys of the table
BadKeys == {<<"z", "/">> \o s_stretch, <<"x", "/">> \o <<"e", "n", "d">>, <<"x">>}

Separators == {<<" ">>, <<" ", " ">>, <<"\t">>}

\* the values the type of `flex` declares
TypedFlex ==
    {s_center, s_center_x, s_center_y} \cup
    {k \o <<" ">> \o g : k \in Keys, g \in Lengths \cup LengthPairs}

\* values outside the type: unknown keys, other whitespace, no gap, empty
UntypedFlex ==
    {k \o <<" ">> \o g : k \in BadKeys, g \in Lengths} \cup
    {k_x_stretch \o <<" ">> \o g : g \in BadLengths} \cup
    {k \o sep \o g : k \in {k_x_center, k_y_wrap_stretch},
                     sep \in Separators \ {<<" ">>}, g \in {<<"0">>}} \cup
    {<<" ">> \o k_x_stretch \o <<" ", "0">>, k_y_center, k_x_stretch \o <<" ">>, <<>>}

FlexValues == {Undef} \cup {Str(s) : s \in TypedFlex \cup UntypedFlex}

\* the N of grow-N: the small ones and a two-digit one
GrowNumbers == (1..MaxGrow) \cup {12}

GrowN == {s_grow_dash \o NumberToString(n) : n \in GrowNumbers}

\* `${number} ${FlexBasis} | ${number}`, the form the type declares
BarForms ==
    {NumberToString(a) \o <<" ">> \o b \o <<" ", "|", " ">> \o NumberToString(c) :
        a \in {1}, b \in FlexBasis, c \in {2}}

\* three whitespace-separated words
ThreeWords ==
    {NumberToString(a) \o <<" ">> \o b \o <<" ">> \o NumberToString(c) :
        a \in {1}, b \in FlexBasis, c \in {2}}

SizeValues ==
    {Undef} \cup
    {Str(s) : s \in {s_grow} \cup GrowN \cup FlexBasis \cup BadLengths
                       \cup BarForms \cup ThreeWords}

PaddingValues == {Undef} \cup {Str(s) : s \in Lengths \cup LengthPairs \cup BadLengths}

\* the classes callers hand in are made by css`` before the call, so the
\* cache holds them when cssShorthand runs
ButtonStyle ==
    ("cursor" :> <<"p", "o", "i", "n", "t", "e", "r">>)
 @@ ("padding" :> <<"1", "0", "r", "e", "m">>)

Hidden ==
    ("display" :> <<"n", "o", "n", "e">>)
 @@ ("padding" :> <<"0">>)

CallerClasses == {ButtonStyle, Hidden}

CallerRegistered == [n \in {ClassName(b) : b \in CallerClasses} |-> n.css]

ClassValues ==
    {Undef, ClassName(ButtonStyle), ClassName(Hidden),
     Arr(<<ClassName(Hidden), ClassName(ButtonStyle)>>)}

s_label == <<"l", "a", "b", "e", "l">>

\* every flex, size and padding, with no other field given
LayoutDescriptors ==
    [flex : FlexValues, size : SizeValues, padding : PaddingValues,
     tag : {Undef}, class : {Undef}, className : {Undef}, title : {Undef},
     onClick : {Undef}, onInput : {Undef}, value : {Undef},
     disabled : {Undef}, readOnly : {Undef}]

\* a few flex, size and padding values, with every combination of the
\* other fields
PassthroughDescriptors ==
    [flex : {Undef, Str(s_center), Str(k_x_center \o <<" ", "0">>),
             Str(<<"z", "/">> \o s_stretch \o <<" ", "0">>)},
     size : {Undef, Str(s_grow)},
     padding : {Undef, Str(<<"0", "/", "1", "0", "p", "x">>)},
     tag : {Undef, Str(s_label)},
     class : {Undef, ClassName(ButtonStyle)},
     className : ClassValues,
     title : {Undef, Str(<<"H", "e", "l", "p">>)},
     onClick : {Undef, Fn("onClick")},
     onInput : {Undef, Fn("onInput")},
     value : {Undef, Str(<<"v">>)},
     disabled : {Undef, Bool(TRUE), Bool(FALSE)},
     readOnly : {Undef, Bool(TRUE)}]

Descriptors == LayoutDescriptors \cup PassthroughDescriptors

----------------------------------------------------------------------------
(* The page: its stack, the cards of the remote table, and the state of    *)
(* the App component when it is mounted.                                   *)

\* statusMessage's values
s_Loading == <<"L", "o", "a", "d", "i", "n", "g">>
s_Saving == <<"S", "a", "v", "i", "n", "g">>
s_Deleting == <<"D", "e", "l", "e", "t", "i", "n", "g">>
s_ERROR == <<"E", "R", "R", "O", "R">>

\* location.pathname of the demo stack, and of a stack of the user's own
s_root == <<"/">>
s_ownStack == <<"/", "s", "t", "a", "c", "k", "/", "a">>

Stacks == {s_root, s_ownStack}

\* the card ids the remote table can hand out
CardIds == 1..MaxCards

\* the table's cards 1..n, in the order of their creation
Created(n) == [i \in 1..n |-> i]

Reverse(s) == [i \in 1..Len(s) |-> s[Len(s) + 1 - i]]

\* the order argument of loadCards: undefined, "shuffle", or an array of ids
OrderUndefined == [kind |-> "undefined", ids |-> <<>>]
OrderShuffle == [kind |-> "shuffle", ids |-> <<>>]
OrderIds(ids) == [kind |-> "ids", ids |-> ids]

\* the order the mount effect asks for
mountOrder(st, ids) ==
    IF st = s_root THEN OrderUndefined
    ELSE IF Len(ids) > 0 THEN OrderIds(ids)
    ELSE OrderShuffle

\* a remote request that has not settled
Request(op, card, order) == [op |-> op, card |-> card, order |-> order]

\* the history of the loadCards call started last: its order argument while
\* it is in flight, how it has settled while older calls still are, and
\* NoLoad when no call is in flight
NoLoad == [kind |-> "none", ids |-> <<>>]

LatestDone == [kind |-> "done", ids |-> <<>>]

LatestFailed == [kind |-> "failed", ids |-> <<>>]

\* loadCards calls that have not settled
loadsInFlight(bag) == {r \in BagToSet(bag) : r.op = "load"}

NotEditing == [isEditing |-> FALSE, resolve |-> "none", card |-> 0]

NoModal == [kind |-> "none", card |-> 0]

\* useModalWindow before any dialog: useState({ type: undefined })
Closed == [type |-> "undefined", promise |-> 0]

ModalClosed ==
    /\ data = Closed
    /\ promises = <<>>
    /\ microtasks = <<>>
    /\ input = <<>>

\* useTextEditing before any edit, in the version with the isEditing state
NotYetEditing == [version |-> "isEditing", isEditing |-> FALSE, text |-> Undef,
                  resolveRef |-> 0]

NoTextEditing ==
    /\ textEditing = NotYetEditing
    /\ editPromises = <<>>

\* App is mounted on stack st: nothing is loaded yet, and the mount effect
\* has asked for the cards
PageLoad(st, table, ids) ==
    /\ stack = st
    /\ server = table
    /\ created = Len(table)
    /\ cardsUndoHistory = <<>>
    /\ orderedIds = ids
    /\ statusMessage = Str(s_Loading)
    /\ cardEditing = NotEditing
    /\ modalWindow = NoModal
    /\ inFlight = SetToBag({Request("load", 0, mountOrder(st, ids))})
    /\ startedLast = mountOrder(st, ids)
    /\ lastAction = "mount"

----------------------------------------------------------------------------
(* The state machine: a descriptor is built, then cssShorthand runs on it. *)

Init ==
    /\ props \in Descriptors
    /\ pc = "call"
    /\ result = [kind |-> "pending"]
    /\ registered = CallerRegistered
    /\ resolved = <<>>
    /\ PageLoad(s_root, Created(2), <<>>)
    /\ inFlightLimit = MaxInFlight
    /\ ModalClosed
    /\ NoTextEditing

Call ==
    /\ pc = "call"
    /\ LET r == cssShorthand(props, registered)
       IN  /\ result' = r.out
           /\ registered' = r.registered
           /\ resolved' = Append(resolved, [props |-> props, out |-> r.out])
    /\ pc' = "done"
    /\ UNCHANGED <<props, appVars, hookVars>>

Next == Call

Spec == Init /\ [][Next]_vars

----------------------------------------------------------------------------
(* Several calls, one after the other, on one class cache.                 *)

\* the descriptors of the successive calls: some share their css`` block,
\* some differ in it, some merge a caller class, some throw
CallDescriptors ==
    [flex : {Undef, Str(s_center), Str(<<"z", "/">> \o s_stretch \o <<" ", "0">>)},
     size : {Undef},
     padding : {Undef, Str(<<"0">>)},
     tag : {Undef}, class : {Undef},
     className : {Undef, ClassName(ButtonStyle)},
     title : {Undef}, onClick : {Undef}, onInput : {Undef}, value : {Undef},
     disabled : {Undef}, readOnly : {Undef}]

InitCalls ==
    /\ props \in CallDescriptors
    /\ pc = "call"
    /\ result = [kind |-> "pending"]
    /\ registered = CallerRegistered
    /\ resolved = <<>>
    /\ PageLoad(s_root, Created(2), <<>>)
    /\ inFlightLimit = MaxInFlight
    /\ ModalClosed
    /\ NoTextEditing

\* Box is rendered again, with any descriptor
Render ==
    /\ pc = "done"
    /\ Len(resolved) < MaxCalls
    /\ props' \in CallDescriptors
    /\ pc' = "call"
    /\ result' = [kind |-> "pending"]
    /\ UNCHANGED <<registered, resolved, appVars, hookVars>>

NextCalls == Call \/ Render

SpecCalls == InitCalls /\ [][NextCalls]_vars

----------------------------------------------------------------------------
(* The card storage: the undo history and the operations on the card list. *)

\* useDerivedState's derive: the current card list is the first entry
derive(history) == IF history = <<>> THEN <<>> ELSE history[1]

\* the card list and the top card of the current render (0: no top card)
cards == derive(cardsUndoHistory)
topCard == IF cards = <<>> THEN 0 ELSE cards[1]

merge_neverClears(history, newCards, isCurrent, clearUndoHistory) ==
    IF isCurrent THEN history
    ELSE <<newCards>> \o history

\* useDerivedState's merge; isCurrent: newCards is the very array that is
\* the history's first entry
merge(history, newCards, isCurrent, clearUndoHistory) ==
    IF isCurrent THEN history
    ELSE IF clearUndoHistory THEN <<newCards>>
    ELSE <<newCards>> \o history

Range(s) == {s[i] : i \in 1..Len(s)}

\* the arrays shuffle can return: the Fisher-Yates loop reaches every
\* permutation of its input
shuffle(items) ==
    {p \in [1..Len(items) -> Range(items)] :
        \A i, j \in 1..Len(items) : (p[i] = p[j]) => (i = j)}

\* the cards that order does not name first, then those it names, in its
\* order (order never holds an id twice: it is a card list's ids)
orderCardsByArray(cs, order) ==
    SelectSeq(cs, LAMBDA c : c \notin Range(order))
        \o SelectSeq(order, LAMBDA id : id \in Range(cs))

\* what loadCards makes of the response for each order argument
orderedCards(response, order) ==
    IF order.kind = "undefined" THEN {response}
    ELSE IF order.kind = "shuffle" THEN shuffle(response)
    ELSE {orderCardsByArray(response, order.ids)}

sendTopCardToBottom(oldCards) ==
    IF Len(oldCards) < 1 THEN oldCards
    ELSE Tail(oldCards) \o <<oldCards[1]>>

\* restCards.splice(randomIndex, 0, topCard)
sendTopCardToRandom(oldCards, randomIndex) ==
    IF Len(oldCards) < 1 THEN oldCards
    ELSE LET restCards == Tail(oldCards)
         IN  SubSeq(restCards, 1, randomIndex) \o <<oldCards[1]>>
                 \o SubSeq(restCards, randomIndex + 1, Len(restCards))

\* Math.floor(Math.random() * restCards.length) + 1
randomIndexes(oldCards) ==
    {k + 1 : k \in 0..(IF Len(oldCards) > 1 THEN Len(oldCards) - 2 ELSE 0)}

undo_dropsTwo(history) == SubSeq(history, 3, Len(history))

\* cardsUndoHistory.slice(1)
undo(history) == SubSeq(history, 2, Len(history))

deleteCard(oldCards, card) == SelectSeq(oldCards, LAMBDA c : c # card)

addCard(oldCards, newCard) == <<newCard>> \o oldCards

\* the effect that saves the order of the cards when they change
savedOrder(history) ==
    IF stack = s_root \/ derive(history) = <<>> THEN orderedIds
    ELSE derive(history)

----------------------------------------------------------------------------
(* The reasons why an action cannot be performed, and the buttons' guards. *)

s_demoMessage == "This action is disabled for this demo, but you'll be able to use it when you're making your own card stacks!"

\* JavaScript's truthiness and its || on booleans and non-empty strings
truthy(v) == IF IsStr(v) THEN TRUE ELSE v.bool
or(a, b) == IF truthy(a) THEN a ELSE b

\* the pretty stack name, not the path, compared
errIsDemoStack_prettyStack == IF stack = <<>> THEN Str(s_demoMessage) ELSE Bool(FALSE)

errIsDemoStack == IF stack = s_root THEN Str(s_demoMessage) ELSE Bool(FALSE)
errNoTopCard == Bool(topCard = 0)
errOneOrFewerCards == Bool(Len(cards) <= 1)
errIsEditing == Bool(cardEditing.isEditing)
errNoUndoHistory == Bool(Len(cardsUndoHistory) <= 1)
errIsSaving == Bool(statusMessage \in {Str(s_Saving), Str(s_Deleting)})

\* the err argument of disabledAndOnClick, button by button
errOfReload == Bool(FALSE)
errOfEdit == or(or(or(errNoTopCard, errIsDemoStack), errIsEditing), errIsSaving)
errOfDelete == or(or(or(errNoTopCard, errIsDemoStack), errIsEditing), errIsSaving)
errOfUndo == or(or(errNoUndoHistory, errIsEditing), errIsSaving)
errOfToBottom == or(or(errOneOrFewerCards, errIsEditing), errIsSaving)
errOfToRandom == or(or(or(errOneOrFewerCards, errIsDemoStack), errIsEditing), errIsSaving)
errOfAdd == or(or(errIsDemoStack, errIsEditing), errIsSaving)
errOfShuffle_savingNotChecked ==
    or(or(errOneOrFewerCards, errIsDemoStack), errIsEditing)

errOfShuffle == or(or(or(errOneOrFewerCards, errIsDemoStack), errIsEditing), errIsSaving)

\* disabledAndOnClick's handler: a string err is shown in an alert, and any
\* truthy err ends the handler before onClick
alerts(err) == IsStr(err)
proceeds(err) == ~truthy(err)

\* the modal window covers the page: a button is clicked only without it
clickable == modalWindow.kind = "none"

\* babysitAsyncAction sets the status, and the request leaves
issue(op, card, order) ==
    /\ BagCardinality(inFlight) < inFlightLimit
    /\ inFlight' = inFlight (+) SetToBag({Request(op, card, order)})
    /\ startedLast' = IF op = "load" THEN order ELSE startedLast

\* the request has settled
settle(r, completed) ==
    /\ inFlight' = inFlight (-) SetToBag({r})
    /\ startedLast' =
         IF loadsInFlight(inFlight') = {} THEN NoLoad
         ELSE IF r.op = "load" /\ r.order = startedLast
              THEN (IF completed THEN LatestDone ELSE LatestFailed)
         ELSE startedLast

----------------------------------------------------------------------------
(* The App component: one action for each handler and each completion of a *)
(* remote request. A handler runs on the state of the latest render. The   *)
(* Help and "Open stack" buttons set location.pathname, which ends the     *)
(* page, and have no action here; the text of a card is not represented.   *)

\* the Box component is not exercised while the page runs
ResolverIdle ==
    /\ props = [flex |-> Undef, size |-> Undef, padding |-> Undef,
                tag |-> Undef, class |-> Undef, className |-> Undef,
                title |-> Undef, onClick |-> Undef, onInput |-> Undef,
                value |-> Undef, disabled |-> Undef, readOnly |-> Undef]
    /\ pc = "call"
    /\ result = [kind |-> "pending"]
    /\ registered = CallerRegistered
    /\ resolved = <<>>

InitApp ==
    /\ ResolverIdle
    /\ \E st \in Stacks, n \in 0..MaxCards :
         \E ids \in (IF st = s_root THEN {<<>>} ELSE {<<>>, Reverse(Created(n))}) :
            PageLoad(st, Created(n), ids)
    /\ inFlightLimit = MaxInFlight
    /\ ModalClosed
    /\ NoTextEditing

\* the "View previously seen card" button
clickUndo ==
    /\ clickable
    /\ proceeds(errOfUndo)
    /\ cardsUndoHistory' = undo(cardsUndoHistory)
    /\ orderedIds' = savedOrder(cardsUndoHistory')
    /\ lastAction' = "undo"
    /\ UNCHANGED <<stack, server, created, statusMessage, cardEditing,
                   modalWindow, inFlight, startedLast,
                   inFlightLimit, resolverVars, hookVars>>

\* the "Move this card to the bottom of the stack" button
clickToBottom ==
    /\ clickable
    /\ proceeds(errOfToBottom)
    /\ Len(cardsUndoHistory) < MaxHistory
    /\ cardsUndoHistory' =
         merge(cardsUndoHistory, sendTopCardToBottom(cards),
               Len(cards) < 1 /\ cardsUndoHistory # <<>>, FALSE)
    /\ orderedIds' = savedOrder(cardsUndoHistory')
    /\ lastAction' = "toBottom"
    /\ UNCHANGED <<stack, server, created, statusMessage, cardEditing,
                   modalWindow, inFlight, startedLast,
                   inFlightLimit, resolverVars, hookVars>>

\* the "Move this card to somewhere in the middle of the stack" button
clickToRandom ==
    /\ clickable
    /\ proceeds(errOfToRandom)
    /\ Len(cardsUndoHistory) < MaxHistory
    /\ \E randomIndex \in randomIndexes(cards) :
         cardsUndoHistory' =
           merge(cardsUndoHistory, sendTopCardToRandom(cards, randomIndex),
                 Len(cards) < 1 /\ cardsUndoHistory # <<>>, FALSE)
    /\ orderedIds' = savedOrder(cardsUndoHistory')
    /\ lastAction' = "toRandom"
    /\ UNCHANGED <<stack, server, created, statusMessage, cardEditing,
                   modalWindow, inFlight, startedLast,
                   inFlightLimit, resolverVars, hookVars>>

\* the "Shuffle all cards in this stack" button
clickShuffle ==
    /\ clickable
    /\ proceeds(errOfShuffle)
    /\ Len(cardsUndoHistory) < MaxHistory
    /\ \E newCards \in shuffle(cards) :
         cardsUndoHistory' = merge(cardsUndoHistory, newCards, FALSE, FALSE)
    /\ orderedIds' = savedOrder(cardsUndoHistory')
    /\ lastAction' = "shuffle"
    /\ UNCHANGED <<stack, server, created, statusMessage, cardEditing,
                   modalWindow, inFlight, startedLast,
                   inFlightLimit, resolverVars, hookVars>>

\* a button whose err is a string is clicked: displayError shows the alert
showError ==
    /\ clickable
    /\ \E err \in {errOfReload, errOfEdit, errOfDelete, errOfUndo, errOfToBottom,
                   errOfToRandom, errOfAdd, errOfShuffle} : alerts(err)
    /\ modalWindow' = [kind |-> "alert", card |-> 0]
    /\ lastAction' = "alert"
    /\ UNCHANGED <<stack, server, created, cardsUndoHistory, orderedIds,
                   statusMessage, cardEditing, inFlight, startedLast,
                   inFlightLimit, resolverVars, hookVars>>

\* the alert is dismissed: displayError returns the err and the handler ends
closeAlert ==
    /\ modalWindow.kind = "alert"
    /\ modalWindow' = NoModal
    /\ lastAction' = "closeAlert"
    /\ UNCHANGED <<stack, server, created, cardsUndoHistory, orderedIds,
                   statusMessage, cardEditing, inFlight, startedLast,
                   inFlightLimit, resolverVars, hookVars>>

\* the "Create new card" button: the handler waits for cardTextarea.edit
clickAdd ==
    /\ clickable
    /\ proceeds(errOfAdd)
    /\ cardEditing' = [isEditing |-> TRUE, resolve |-> "add", card |-> 0]
    /\ lastAction' = "add"
    /\ UNCHANGED <<stack, server, created, cardsUndoHistory, orderedIds,
                   statusMessage, modalWindow, inFlight, startedLast,
                   inFlightLimit, resolverVars, hookVars>>

\* the "Edit card" button: the handler keeps the top card of its render
clickEdit ==
    /\ clickable
    /\ proceeds(errOfEdit)
    /\ topCard # 0
    /\ cardEditing' = [isEditing |-> TRUE, resolve |-> "edit", card |-> topCard]
    /\ lastAction' = "edit"
    /\ UNCHANGED <<stack, server, created, cardsUndoHistory, orderedIds,
                   statusMessage, modalWindow, inFlight, startedLast,
                   inFlightLimit, resolverVars, hookVars>>

\* cardEditing.done (the Save button, or Ctrl+Enter in the textarea): the
\* waiting handler resumes with the trimmed text; an empty text ends it,
\* any other text is sent
editDone(isEmpty) ==
    /\ cardEditing.isEditing
    /\ cardEditing' = NotEditing
    /\ IF isEmpty
       THEN /\ lastAction' = "editDoneEmpty"
            /\ UNCHANGED <<statusMessage, inFlight, startedLast>>
       ELSE /\ statusMessage' = Str(s_Saving)
            /\ IF cardEditing.resolve = "add"
               THEN issue("create", 0, OrderUndefined)
               ELSE issue("update", cardEditing.card, OrderUndefined)
            /\ lastAction' = "editDone"
    /\ UNCHANGED <<stack, server, created, cardsUndoHistory, orderedIds,
                   modalWindow,
                   inFlightLimit, resolverVars, hookVars>>

\* cardEditing.cancel (the Cancel button, or Escape in the textarea): the
\* waiting handler resumes with undefined and ends
editCancel ==
    /\ cardEditing.isEditing
    /\ cardEditing' = NotEditing
    /\ lastAction' = "editCancel"
    /\ UNCHANGED <<stack, server, created, cardsUndoHistory, orderedIds,
                   statusMessage, modalWindow, inFlight, startedLast,
                   inFlightLimit, resolverVars, hookVars>>

\* the "Delete card" button: the handler asks for a confirmation
clickDelete ==
    /\ clickable
    /\ proceeds(errOfDelete)
    /\ topCard # 0
    /\ modalWindow' = [kind |-> "confirmDelete", card |-> topCard]
    /\ lastAction' = "delete"
    /\ UNCHANGED <<stack, server, created, cardsUndoHistory, orderedIds,
                   statusMessage, cardEditing, inFlight, startedLast,
                   inFlightLimit, resolverVars, hookVars>>

\* the confirmation is answered: Delete sends the request, Cancel ends
confirmDelete(ok) ==
    /\ modalWindow.kind = "confirmDelete"
    /\ modalWindow' = NoModal
    /\ IF ok
       THEN /\ statusMessage' = Str(s_Deleting)
            /\ issue("delete", modalWindow.card, OrderUndefined)
            /\ lastAction' = "confirmDelete"
       ELSE /\ lastAction' = "cancelDelete"
            /\ UNCHANGED <<statusMessage, inFlight, startedLast>>
    /\ UNCHANGED <<stack, server, created, cardsUndoHistory, orderedIds,
                   cardEditing,
                   inFlightLimit, resolverVars, hookVars>>

\* the "Reload cards" button: the handler asks whether to reset the order
clickReload ==
    /\ clickable
    /\ proceeds(errOfReload)
    /\ modalWindow' = [kind |-> "confirmReload", card |-> 0]
    /\ lastAction' = "reload"
    /\ UNCHANGED <<stack, server, created, cardsUndoHistory, orderedIds,
                   statusMessage, cardEditing, inFlight, startedLast,
                   inFlightLimit, resolverVars, hookVars>>

\* the question is answered either way: the list is emptied, an edit is
\* cancelled, and the cards are asked for again
confirmReload(resetOrder) ==
    /\ modalWindow.kind = "confirmReload"
    /\ modalWindow' = NoModal
    /\ cardsUndoHistory' = merge(cardsUndoHistory, <<>>, FALSE, TRUE)
    /\ cardEditing' = NotEditing
    /\ statusMessage' = Str(s_Loading)
    /\ issue("load", 0, IF resetOrder THEN OrderUndefined ELSE OrderIds(orderedIds))
    /\ orderedIds' = savedOrder(cardsUndoHistory')
    /\ lastAction' = "confirmReload"
    /\ UNCHANGED <<stack, server, created,
                   inFlightLimit, resolverVars, hookVars>>

\* apiGetCards answers: loadCards orders the cards and replaces the list
loadDone(r) ==
    /\ r.op = "load"
    /\ \E newCards \in orderedCards(server, r.order) :
         cardsUndoHistory' = merge(cardsUndoHistory, newCards, FALSE, TRUE)
    /\ orderedIds' = savedOrder(cardsUndoHistory')
    /\ statusMessage' = Undef
    /\ settle(r, TRUE)
    /\ lastAction' = "loaded"
    /\ UNCHANGED <<stack, server, created, cardEditing, modalWindow,
                   inFlightLimit, resolverVars, hookVars>>

\* apiUpdateCardText answers: the card's fields are replaced in place and
\* the list is set to itself
updateDone(r) ==
    /\ r.op = "update"
    /\ cardsUndoHistory' =
         merge(cardsUndoHistory, cards, cardsUndoHistory # <<>>, FALSE)
    /\ orderedIds' = savedOrder(cardsUndoHistory')
    /\ statusMessage' = Undef
    /\ settle(r, TRUE)
    /\ lastAction' = "updated"
    /\ UNCHANGED <<stack, server, created, cardEditing, modalWindow,
                   inFlightLimit, resolverVars, hookVars>>

\* apiDeleteCard answers: the card leaves the table and the list
deleteDone(r) ==
    /\ r.op = "delete"
    /\ server' = deleteCard(server, r.card)
    /\ cardsUndoHistory' =
         merge(cardsUndoHistory, deleteCard(cards, r.card), FALSE, TRUE)
    /\ orderedIds' = savedOrder(cardsUndoHistory')
    /\ statusMessage' = Undef
    /\ settle(r, TRUE)
    /\ lastAction' = "deleted"
    /\ UNCHANGED <<stack, created, cardEditing, modalWindow,
                   inFlightLimit, resolverVars, hookVars>>

\* apiCreateCard answers with the new card, which goes on top of the list
createDone(r) ==
    /\ r.op = "create"
    /\ created < MaxCards
    /\ created' = created + 1
    /\ server' = Append(server, created + 1)
    /\ cardsUndoHistory' =
         merge(cardsUndoHistory, addCard(cards, created + 1), FALSE, TRUE)
    /\ orderedIds' = savedOrder(cardsUndoHistory')
    /\ statusMessage' = Undef
    /\ settle(r, TRUE)
    /\ lastAction' = "created"
    /\ UNCHANGED <<stack, cardEditing, modalWindow,
                   inFlightLimit, resolverVars, hookVars>>

\* a request fails: babysitAsyncAction's catch sets the status, and the
\* storage operation never reaches its setCards
requestFailed(r) ==
    /\ statusMessage' = Str(s_ERROR)
    /\ settle(r, FALSE)
    /\ lastAction' = "failed"
    /\ UNCHANGED <<stack, server, created, cardsUndoHistory, orderedIds,
                   cardEditing, modalWindow,
                   inFlightLimit, resolverVars, hookVars>>

\* the table answers with an error body: apiGetCards, apiUpdateCardText and
\* apiCreateCard throw on it, as a failed request does; apiDeleteCard does
\* not read the answer, and deleteCard goes on to its setCards
errorBody(r) ==
    /\ IF r.op = "delete"
       THEN /\ cardsUndoHistory' =
                 merge(cardsUndoHistory, deleteCard(cards, r.card), FALSE, TRUE)
            /\ orderedIds' = savedOrder(cardsUndoHistory')
            /\ statusMessage' = Undef
       ELSE /\ statusMessage' = Str(s_ERROR)
            /\ UNCHANGED <<cardsUndoHistory, orderedIds>>
    /\ settle(r, FALSE)
    /\ lastAction' = "errorBody"
    /\ UNCHANGED <<stack, server, created, cardEditing, modalWindow,
                   inFlightLimit, resolverVars, hookVars>>

NextApp ==
    \/ clickUndo
    \/ clickToBottom
    \/ clickToRandom
    \/ clickShuffle
    \/ showError
    \/ closeAlert
    \/ clickAdd
    \/ clickEdit
    \/ \E isEmpty \in BOOLEAN : editDone(isEmpty)
    \/ editCancel
    \/ clickDelete
    \/ \E ok \in BOOLEAN : confirmDelete(ok)
    \/ clickReload
    \/ \E resetOrder \in BOOLEAN : confirmReload(resetOrder)
    \/ \E r \in BagToSet(inFlight) : loadDone(r)
    \/ \E r \in BagToSet(inFlight) : updateDone(r)
    \/ \E r \in BagToSet(inFlight) : deleteDone(r)
    \/ \E r \in BagToSet(inFlight) : createDone(r)
    \/ \E r \in BagToSet(inFlight) : requestFailed(r)
    \/ \E r \in BagToSet(inFlight) : errorBody(r)

SpecApp == InitApp /\ [][NextApp]_vars

\* the same page, with one more request let in flight: a Reload is started
\* while the mount effect's load or a save has not settled
InitConcurrent ==
    /\ ResolverIdle
    /\ \E st \in Stacks, n \in 0..MaxCards :
         \E ids \in (IF st = s_root THEN {<<>>} ELSE {<<>>, Reverse(Created(n))}) :
            PageLoad(st, Created(n), ids)
    /\ inFlightLimit = MaxInFlight + 1
    /\ ModalClosed
    /\ NoTextEditing

SpecConcurrent == InitConcurrent /\ [][NextApp]_vars

----------------------------------------------------------------------------
(* useModalWindow and ModalWindow.  The hook keeps one state, data; alert, *)
(* confirm and prompt each make a promise, put its resolve in data and     *)
(* register closeModal on it before they return it.  Promise reactions run *)
(* in the order they were registered, after the handler that resolved the  *)
(* promise and before the next event.                                      *)

DialogTypes == {"alert", "confirm", "prompt"}

\* the ways a dialog is dismissed: its two buttons, two keys, and a click on
\* the backdrop; the alert has no cancel button
Ways == {"ok", "cancel", "enter", "escape", "backdrop"}

waysOf(type) == IF type = "alert" THEN Ways \ {"cancel"} ELSE Ways

\* the values the prompt's input takes, and those it starts from
InputValues == {<<>>, <<"a">>, <<"b">>}

DefaultValues == {<<>>, <<"a">>}

\* what the handler of each way passes to props.resolve
dismissValue(type, way, value) ==
    CASE way = "backdrop" -> Undef
      [] way = "escape" -> Undef
      [] way = "cancel" -> Undef
      [] way = "enter" -> IF type = "prompt" THEN Str(value) ELSE Bool(TRUE)
      [] way = "ok" -> IF type = "confirm" THEN Bool(TRUE)
                       ELSE IF type = "prompt" THEN Str(value)
                       ELSE Undef

reactions_callerFirst(p) ==
    <<[job |-> "continuation", promise |-> p],
      [job |-> "closeModal", promise |-> p]>>

\* the reactions of a promise the hook has returned to a caller that awaits
\* it: result.then(closeModal) is registered before the caller's await
reactions(p) ==
    <<[job |-> "closeModal", promise |-> p],
      [job |-> "continuation", promise |-> p]>>

\* new Promise((resolve) => setData({type, text, resolve, options}))
open(type, defaultValue, by) ==
    /\ Len(promises) < MaxDialogs
    /\ promises' = Append(promises,
                       [type |-> type, state |-> "pending", value |-> Undef,
                        way |-> "none", typed |-> <<>>, openedBy |-> by])
    /\ data' = [type |-> type, promise |-> Len(promises) + 1]
    /\ input' = IF type = "prompt" THEN defaultValue ELSE input

\* the resolve function of promise p is called: the first call settles the
\* promise and queues its reactions, a later call does nothing
resolve(p, value, way) ==
    IF promises[p].state = "pending"
    THEN /\ promises' = [promises EXCEPT ![p] =
                           [@ EXCEPT !.state = "resolved", !.value = value,
                                     !.way = way, !.typed = input]]
         /\ microtasks' = microtasks \o reactions(p)
    ELSE UNCHANGED <<promises, microtasks>>

\* a handler of the page calls alert, confirm or prompt; the page's buttons
\* stay in the tab order under the backdrop, so a dialog is asked for also
\* while one is open
request(type) ==
    /\ microtasks = <<>>
    /\ \E defaultValue \in DefaultValues : open(type, defaultValue, "handler")
    /\ UNCHANGED <<microtasks, resolverVars, appVars, editingVars>>

\* the user types in the prompt's input
typeInput(value) ==
    /\ microtasks = <<>>
    /\ data.type = "prompt"
    /\ input # value
    /\ input' = value
    /\ UNCHANGED <<data, promises, microtasks, resolverVars, appVars,
                   editingVars>>

\* the user dismisses the dialog on screen: the handler calls the resolve
\* that data holds
dismiss(way) ==
    /\ microtasks = <<>>
    /\ data.type \in DialogTypes
    /\ way \in waysOf(data.type)
    /\ resolve(data.promise, dismissValue(data.type, way, input), way)
    /\ UNCHANGED <<data, input, resolverVars, appVars, editingVars>>

\* the reaction registered by result.then(closeModal)
closeModal ==
    /\ microtasks # <<>>
    /\ Head(microtasks).job = "closeModal"
    /\ data' = Closed
    /\ microtasks' = Tail(microtasks)
    /\ UNCHANGED <<promises, input, resolverVars, appVars, editingVars>>

\* the caller resumes after its await and returns
continuationReturns ==
    /\ microtasks # <<>>
    /\ Head(microtasks).job = "continuation"
    /\ microtasks' = Tail(microtasks)
    /\ UNCHANGED <<data, promises, input, resolverVars, appVars, editingVars>>

\* the caller resumes after its await and asks for another dialog
continuationOpens(type) ==
    /\ microtasks # <<>>
    /\ Head(microtasks).job = "continuation"
    /\ \E defaultValue \in DefaultValues : open(type, defaultValue, "continuation")
    /\ microtasks' = Tail(microtasks)
    /\ UNCHANGED <<resolverVars, appVars, editingVars>>

NextModal ==
    \/ \E type \in DialogTypes : request(type)
    \/ \E value \in InputValues : typeInput(value)
    \/ \E way \in Ways : dismiss(way)
    \/ closeModal
    \/ continuationReturns
    \/ \E type \in DialogTypes : continuationOpens(type)

InitModal ==
    /\ ResolverIdle
    /\ PageLoad(s_root, Created(2), <<>>)
    /\ inFlightLimit = MaxInFlight
    /\ ModalClosed
    /\ NoTextEditing

SpecModal == InitModal /\ [][NextModal]_vars

\* the user dismisses each dialog that is displayed, and queued reactions run
SpecModalFair ==
    /\ InitModal
    /\ [][NextModal]_vars
    /\ WF_vars(\E way \in Ways : dismiss(way))
    /\ WF_vars(closeModal \/ continuationReturns)

----------------------------------------------------------------------------
(* useTextEditing.  Two versions of the hook resolve the promise of edit   *)
(* on done and on cancel: one keeps isEditing as a state, the other        *)
(* derives it from text.  Each handler runs on the render that follows the *)
(* event before it, so the text a handler reads is the text set last.      *)

Versions == {"isEditing", "text"}

\* the texts edit starts from ("" for a new card), and those typed
InitialTexts == {<<>>, <<"a">>}

TypedTexts == {<<>>, <<"a">>, <<"b">>}

\* the isEditing the hook returns
isEditing(h) ==
    IF h.version = "isEditing" THEN h.isEditing ELSE ~IsUndef(h.text)

\* the hook after edit(text), its resolveRef holding the resolve of promise p
afterEdit(h, text, p) ==
    IF h.version = "isEditing"
    THEN [h EXCEPT !.text = Str(text), !.isEditing = TRUE, !.resolveRef = p]
    ELSE [h EXCEPT !.text = Str(text), !.resolveRef = p]

afterDone_keepsResolve(h) ==
    IF h.version = "isEditing"
    THEN [h EXCEPT !.isEditing = FALSE]
    ELSE [h EXCEPT !.text = Undef]

\* the hook after done()
afterDone(h) ==
    IF h.version = "isEditing"
    THEN [h EXCEPT !.resolveRef = 0, !.isEditing = FALSE]
    ELSE [h EXCEPT !.resolveRef = 0, !.text = Undef]

\* the hook after cancel()
afterCancel(h) ==
    IF h.version = "isEditing"
    THEN [h EXCEPT !.resolveRef = 0, !.text = Undef, !.isEditing = FALSE]
    ELSE [h EXCEPT !.resolveRef = 0, !.text = Undef]

\* resolveRef.current?.(value): nothing is called when no resolve is stored,
\* and a promise that has resolved keeps its value
resolveEdit(p, value, by) ==
    IF p # 0 /\ editPromises[p].state = "pending"
    THEN editPromises' = [editPromises EXCEPT ![p] =
                            [@ EXCEPT !.state = "resolved", !.value = value,
                                      !.by = by]]
    ELSE UNCHANGED editPromises

\* a handler calls edit: the App's buttons do so only when isEditing is false
edit(text) ==
    /\ ~isEditing(textEditing)
    /\ Len(editPromises) < MaxEdits
    /\ editPromises' = Append(editPromises,
                           [state |-> "pending", value |-> Undef,
                            by |-> "none", lastSet |-> text])
    /\ textEditing' = afterEdit(textEditing, text, Len(editPromises) + 1)
    /\ UNCHANGED <<resolverVars, appVars, modalVars>>

\* the textarea's onInput: the textarea is read-only unless isEditing
setText(value) ==
    /\ isEditing(textEditing)
    /\ textEditing.text # Str(value)
    /\ textEditing' = [textEditing EXCEPT !.text = Str(value)]
    /\ editPromises' =
         IF textEditing.resolveRef = 0 THEN editPromises
         ELSE [editPromises EXCEPT ![textEditing.resolveRef].lastSet = value]
    /\ UNCHANGED <<resolverVars, appVars, modalVars>>

\* the done button, or Ctrl+Enter in the textarea at any time
done ==
    /\ resolveEdit(textEditing.resolveRef, textEditing.text, "done")
    /\ textEditing' = afterDone(textEditing)
    /\ UNCHANGED <<resolverVars, appVars, modalVars>>

\* the cancel button or Escape, or the reload handler at any time
cancel ==
    /\ resolveEdit(textEditing.resolveRef, Undef, "cancel")
    /\ textEditing' = afterCancel(textEditing)
    /\ UNCHANGED <<resolverVars, appVars, modalVars>>

NextEditing ==
    \/ \E text \in InitialTexts : edit(text)
    \/ \E value \in TypedTexts : setText(value)
    \/ done
    \/ cancel

InitEditing ==
    /\ ResolverIdle
    /\ PageLoad(s_root, Created(2), <<>>)
    /\ inFlightLimit = MaxInFlight
    /\ ModalClosed
    /\ \E version \in Versions :
         textEditing = [NotYetEditing EXCEPT !.version = version]
    /\ editPromises = <<>>

SpecEditing == InitEditing /\ [][NextEditing]_vars

----------------------------------------------------------------------------
(* Vocabulary of the properties.                                           *)

Returned == pc = "done" /\ result.kind = "return"
Threw == pc = "done" /\ result.kind = "throw"

\* the returned declaration block sets property p
Sets(p) == p \in DOMAIN result.style
\* the returned declaration block sets property p to the text v
Emits(p, v) == p \in DOMAIN result.style /\ result.style[p] = v

Flows == {<<"x">>, <<"y">>, <<"x", "-">> \o s_wrap, <<"y", "-">> \o s_wrap}
Aligns == {s_stretch, s_center}
Gaps == Lengths \cup LengthPairs

\* the flex-flow the grammar assigns to each flow
FlowCss(flow) ==
    CASE flow = <<"x">> -> s_row
      [] flow = <<"y">> -> s_column
      [] flow = <<"x", "-">> \o s_wrap -> s_row_wrap
      [] flow = <<"y", "-">> \o s_wrap -> s_column_wrap

FlexOf(flow, align, gap) == Str(flow \o <<"/">> \o align \o <<" ">> \o gap)

\* every "<flow>/<align> <gap>" with the flex-flow the grammar gives its flow
FlowAlignCases ==
    {[flex |-> FlexOf(f, a, g), flexFlow |-> FlowCss(f), align |-> a] :
        f \in Flows, a \in Aligns, g \in Gaps}

\* every "<flow>/<align> <gap>" with the gap the grammar gives it: a length
\* as it is, a pair a/b as "a b"
GapCases ==
    {[flex |-> FlexOf(f, a, g), gap |-> g] :
        f \in Flows, a \in Aligns, g \in Lengths} \cup
    {[flex |-> FlexOf(f, a, g[1] \o <<"/">> \o g[2]), gap |-> g[1] \o <<" ">> \o g[2]] :
        f \in Flows, a \in Aligns, g \in Lengths \X Lengths}

\* every padding with the text the shorthand gives it
PaddingCases ==
    {[padding |-> Str(a), text |-> a] : a \in Lengths} \cup
    {[padding |-> Str(g[1] \o <<"/">> \o g[2]), text |-> g[1] \o <<" ">> \o g[2]] :
        g \in Lengths \X Lengths}

\* every grow-N with the numeral of N
GrowCases ==
    {[size |-> Str(s_grow_dash \o NumberToString(n)), grow |-> NumberToString(n)] :
        n \in GrowNumbers}

KeyNames == {f \o <<"/">> \o a : f \in Flows, a \in Aligns}

\* the declarations in effect on an element that carries the class names,
\* as the cache resolves them
InEffect(names, cache) == Cascade([i \in 1..Len(names) |-> cache[names[i]]])

\* the blocks of the classes the caller handed in, class before className
CallerBlocks(p) ==
    LET names == classnames(<<p.class, p.className>>)
    IN  [i \in 1..Len(names) |-> names[i].css]

\* the declarations in effect for a descriptor resolved on a cache that
\* holds the caller's classes and nothing else
FreshStyle(p) ==
    LET r == cssShorthand(p, CallerRegistered)
    IN  InEffect(r.out.className, r.registered)

PassthroughFields ==
    {"tag", "title", "onClick", "onInput", "value", "disabled", "readOnly"}

NoSpace(s) == \A i \in 1..Len(s) : ~IsSpace(s[i])

----------------------------------------------------------------------------
(* C1: for every flex value "<flow>/<align> <gap>" the call returns with   *)
(* flex-flow row, column, row wrap, column wrap for flow x, y, x-wrap,     *)
(* y-wrap, with align-items center when align is center and with           *)
(* align-items unset when align is stretch.                                *)
C1_FlowAlign ==
    pc = "done" =>
        \A c \in FlowAlignCases :
            props.flex = c.flex =>
                /\ result.kind = "return"
                /\ Emits("flex-flow", c.flexFlow)
                /\ IF c.align = s_center
                   THEN Emits("align-items", s_center)
                   ELSE ~Sets("align-items")

C1_Witness ==
    /\ Returned
    /\ props.flex = FlexOf(<<"y", "-">> \o s_wrap, s_stretch, <<"0">>)
    /\ Emits("flex-flow", s_column_wrap)
    /\ ~Sets("align-items")

(* C2: the keywords center, center-x, center-y yield flex-flow column,     *)
(* row, column, align-items center, stretch, stretch, justify-content      *)
(* center, and no gap.                                                     *)
C2_Keywords ==
    Returned =>
        /\ props.flex = Str(s_center) =>
              /\ Emits("flex-flow", s_column)
              /\ Emits("align-items", s_center)
              /\ Emits("justify-content", s_center)
              /\ ~Sets("gap")
        /\ props.flex = Str(s_center_x) =>
              /\ Emits("flex-flow", s_row)
              /\ Emits("align-items", s_stretch)
              /\ Emits("justify-content", s_center)
              /\ ~Sets("gap")
        /\ props.flex = Str(s_center_y) =>
              /\ Emits("flex-flow", s_column)
              /\ Emits("align-items", s_stretch)
              /\ Emits("justify-content", s_center)
              /\ ~Sets("gap")

C2_Witness ==
    /\ Returned
    /\ props.flex = Str(s_center_x)
    /\ Emits("align-items", s_stretch)
    /\ ~Sets("gap")

(* C3: a flex value that is no keyword and whose first whitespace-         *)
(* delimited token is none of the 8 keys makes the call throw; no returned *)
(* style has display without flex-flow.                                    *)
C3_UnknownKeyThrows ==
    /\ (/\ pc = "done"
        /\ IsStr(props.flex)
        /\ props.flex.str \notin {s_center, s_center_x, s_center_y}
        /\ split(props.flex.str)[1] \notin KeyNames)
       => result.kind = "throw"
    /\ Returned => (Sets("display") => Sets("flex-flow"))

C3_Witness ==
    /\ Threw
    /\ props.flex = Str(<<"z", "/">> \o s_stretch \o <<" ", "1", "0", "p", "x">>)

(* C4: for "<flow>/<align> <gap>" the gap emitted is the second token: a   *)
(* single length unchanged, a pair a/b as "a b".                           *)
C4_Gap ==
    pc = "done" =>
        \A c \in GapCases :
            props.flex = c.flex => (result.kind = "return" /\ Emits("gap", c.gap))

C4_Witness ==
    /\ Returned
    /\ props.flex = FlexOf(<<"y", "-">> \o s_wrap, s_center,
                           <<"1", "0", "p", "x", "/", "1", "0", "r", "e", "m">>)
    /\ Emits("gap", <<"1", "0", "p", "x", " ", "1", "0", "r", "e", "m">>)

(* C5: size grow yields flex-shrink 0, flex-basis 0, flex-grow 1; size     *)
(* grow-N yields flex-shrink 0, flex-basis 0, flex-grow N.                 *)
C5_Grow ==
    Returned =>
        /\ props.size = Str(s_grow) =>
              /\ Emits("flex-shrink", <<"0">>)
              /\ Emits("flex-basis", <<"0">>)
              /\ Emits("flex-grow", <<"1">>)
        /\ \A c \in GrowCases :
              props.size = c.size =>
                 /\ Emits("flex-shrink", <<"0">>)
                 /\ Emits("flex-basis", <<"0">>)
                 /\ Emits("flex-grow", c.grow)

C5_Witness ==
    /\ Returned
    /\ props.size = Str(s_grow_dash \o <<"1", "2">>)
    /\ Emits("flex-grow", <<"1", "2">>)

(* C6: a size "<shrink> <basis> | <grow>", the form the type declares,     *)
(* sets flex-shrink, flex-basis, flex-grow to its shrink, basis and grow.  *)
C6_BarForm ==
    Returned =>
        \A b \in FlexBasis :
            props.size = Str(<<"1", " ">> \o b \o <<" ", "|", " ", "2">>) =>
                /\ Emits("flex-shrink", <<"1">>)
                /\ Emits("flex-basis", b)
                /\ Emits("flex-grow", <<"2">>)

(* C7: a size that is one token, not grow and not starting with grow-,     *)
(* yields flex-shrink 0, flex-basis that token, flex-grow 0.               *)
C7_OneWord ==
    (/\ Returned
     /\ IsStr(props.size)
     /\ props.size.str # <<>>
     /\ NoSpace(props.size.str)
     /\ props.size.str # s_grow
     /\ ~startsWith(props.size.str, s_grow_dash))
    =>
        /\ Emits("flex-shrink", <<"0">>)
        /\ Emits("flex-basis", props.size.str)
        /\ Emits("flex-grow", <<"0">>)

C7_Witness ==
    /\ Returned
    /\ props.size = Str(<<"1", "0", "p", "x">>)
    /\ Emits("flex-basis", <<"1", "0", "p", "x">>)
    /\ Emits("flex-grow", <<"0">>)

(* C8: the padding emitted is the padding field with its slash replaced    *)
(* by a space: a single length unchanged, a/b as "a b"; no padding is      *)
(* emitted when the field is absent.                                       *)
C8_Padding ==
    Returned =>
        /\ IsUndef(props.padding) => ~Sets("padding")
        /\ \A c \in PaddingCases :
              props.padding = c.padding => Emits("padding", c.text)

C8_Witness ==
    /\ Returned
    /\ props.padding = Str(<<"1", "0", "p", "x", "/", "0">>)
    /\ Emits("padding", <<"1", "0", "p", "x", " ", "0">>)

(* C9: whenever the call returns for a given flex, display is flex.        *)
C9_DisplayFlex ==
    (Returned /\ ~IsUndef(props.flex)) => Emits("display", s_flex)

C9_Witness ==
    /\ Returned
    /\ props.flex = FlexOf(<<"x">>, s_center, <<"0">>)
    /\ Emits("display", s_flex)

(* C10: when flex is absent none of display, flex-flow, gap, align-items,  *)
(* justify-content is set, whatever size and padding are.                  *)
C10_NoFlexNoFlexProperties ==
    (Returned /\ IsUndef(props.flex)) =>
        \A p \in {"display", "flex-flow", "gap", "align-items", "justify-content"} :
            ~Sets(p)

C10_Witness ==
    /\ Returned
    /\ IsUndef(props.flex)
    /\ props.size = Str(s_grow)
    /\ props.padding = Str(<<"0", "/", "0">>)
    /\ Sets("flex-grow")
    /\ Sets("padding")

(* C11: when size is absent none of flex-basis, flex-grow, flex-shrink is  *)
(* set, whatever flex and padding are.                                     *)
C11_NoSizeNoSizeProperties ==
    (Returned /\ IsUndef(props.size)) =>
        \A p \in {"flex-basis", "flex-grow", "flex-shrink"} : ~Sets(p)

C11_Witness ==
    /\ Returned
    /\ IsUndef(props.size)
    /\ props.flex = Str(s_center)
    /\ props.padding = Str(<<"0">>)
    /\ Sets("display")
    /\ Sets("padding")

(* C12: every returned output has box-sizing: border-box, the output of    *)
(* the empty descriptor included.                                          *)
C12_BoxSizing ==
    Returned => Emits("box-sizing", <<"b", "o", "r", "d", "e", "r", "-", "b", "o", "x">>)

C12_Witness ==
    /\ Returned
    /\ IsUndef(props.flex) /\ IsUndef(props.size) /\ IsUndef(props.padding)
    /\ DOMAIN result.style = {"box-sizing"}

(* C16: a gap, a padding or a one-token size whose unit is outside the     *)
(* Length grammar raises no error and is emitted as it is into gap,        *)
(* padding or flex-basis.                                                  *)
C16_UnitsNotValidated ==
    pc = "done" =>
        \A b \in BadLengths :
            /\ ~IsLength(b)
            /\ props.flex = Str(k_x_stretch \o <<" ">> \o b) =>
                  (result.kind = "return" /\ Emits("gap", b))
            /\ (props.padding = Str(b) /\ result.kind = "return") =>
                  Emits("padding", b)
            /\ (props.size = Str(b) /\ result.kind = "return") =>
                  Emits("flex-basis", b)

C16_Witness ==
    /\ Returned
    /\ props.flex = Str(k_x_stretch \o <<" ", "5", "e", "m">>)
    /\ props.padding = Str(<<"3", "p", "t">>)
    /\ props.size = Str(<<"5", "e", "m">>)
    /\ Emits("gap", <<"5", "e", "m">>)
    /\ Emits("padding", <<"3", "p", "t">>)
    /\ Emits("flex-basis", <<"5", "e", "m">>)

(* C13: a returning call hands tag, title, onClick, onInput, value,        *)
(* disabled and readOnly through with the values of the descriptor,        *)
(* whatever flex, size and padding are, and leaves the descriptor as it    *)
(* was.                                                                    *)
C13_Passthrough ==
    [][(pc = "call" /\ pc' = "done" /\ result'.kind = "return") =>
          /\ props' = props
          /\ \A field \in PassthroughFields : result'[field] = props[field]]_vars

C13_Witness ==
    /\ Returned
    /\ props.flex = Str(s_center)
    /\ props.tag = Str(s_label) /\ result.tag = Str(s_label)
    /\ props.disabled = Bool(FALSE) /\ result.disabled = Bool(FALSE)
    /\ props.readOnly = Bool(TRUE) /\ result.readOnly = Bool(TRUE)
    /\ props.onClick = Fn("onClick") /\ result.onClick = Fn("onClick")
    /\ props.value = Str(<<"v">>) /\ result.value = Str(<<"v">>)

(* C14: the merged class holds the css`` block first, then the caller's    *)
(* class, then the caller's className: a property a caller class sets has  *)
(* the value of the last caller class that sets it, and any other property *)
(* has the value the resolver computed.                                    *)
C14_CallerWins ==
    Returned =>
        LET eff == InEffect(result.className, registered)
            blocks == CallerBlocks(props)
            setters(q) == {i \in 1..Len(blocks) : q \in DOMAIN blocks[i]}
            last(q) == CHOOSE i \in setters(q) : \A j \in setters(q) : j <= i
        IN  /\ DOMAIN eff =
                  DOMAIN result.style \cup UNION {DOMAIN blocks[i] : i \in 1..Len(blocks)}
            /\ \A q \in DOMAIN eff :
                  eff[q] = IF setters(q) = {} THEN result.style[q]
                           ELSE blocks[last(q)][q]

C14_Witness ==
    /\ Returned
    /\ props.padding = Str(<<"0", "/", "1", "0", "p", "x">>)
    /\ props.class = ClassName(ButtonStyle)
    /\ props.className = ClassName(Hidden)
    /\ Emits("padding", <<"0", " ", "1", "0", "p", "x">>)
    /\ InEffect(result.className, registered)["padding"] = <<"0">>
    /\ InEffect(result.className, registered)["cursor"] = <<"p", "o", "i", "n", "t", "e", "r">>

----------------------------------------------------------------------------
(* The undo history.                                                       *)

IsPermutationOf(a, b) ==
    /\ Len(a) = Len(b)
    /\ Range(a) = Range(b)
    /\ \A i, j \in 1..Len(a) : (a[i] = a[j]) => (i = j)

\* C17: in every reachable state of the card storage, every entry of the
\* undo history holds exactly the ids of the current card list, each once:
\* it is a permutation of the current list, whatever loads, adds, deletes,
\* edits, reorders, reloads and undos came before
C17_HistoryEntriesArePermutations ==
    \A i \in 1..Len(cardsUndoHistory) : IsPermutationOf(cardsUndoHistory[i], cards)

\* a stack of the user's own was reordered until the history is as long as
\* the run lets it grow, its two newest entries not alike
C17_Witness ==
    /\ stack = s_ownStack
    /\ Len(cardsUndoHistory) = MaxHistory
    /\ cardsUndoHistory[1] # cardsUndoHistory[2]
    /\ Len(cards) >= 2
    /\ lastAction \in {"shuffle", "toBottom", "toRandom"}

Reorders == {"shuffle", "toBottom", "toRandom"}

----------------------------------------------------------------------------
(* Editing, saving and deleting keep the buttons from acting.              *)

\* a card text is being edited, or the status is "Saving" or "Deleting"
Busy == cardEditing.isEditing \/ statusMessage \in {Str(s_Saving), Str(s_Deleting)}

\* the handlers of the seven buttons, and of the delete confirmation
ButtonsActing == {"undo", "toBottom", "toRandom", "shuffle", "add", "edit", "delete",
                  "confirmDelete"}

\* a remote request in flight has completed, or the reload handler has run
CompletionOrReload ==
    {"loaded", "updated", "deleted", "created", "errorBody", "confirmReload"}

\* C19: from a state where a text is being edited or the status is "Saving"
\* or "Deleting", no step is the handler of undo, sendTopCardToBottom,
\* sendTopCardToRandom, shuffle, add, edit or delete getting past its guard,
\* and a step that changes the undo history (so also one that changes the
\* card list) is the completion of a request in flight or the reload
C19_BusyBlocksButtons ==
    [][Busy =>
         /\ lastAction' \notin ButtonsActing
         /\ (cardsUndoHistory' # cardsUndoHistory) => (lastAction' \in CompletionOrReload)
      ]_vars

\* a card is on top, the status is "Saving" and the save has not settled
C19_Witness ==
    /\ statusMessage = Str(s_Saving)
    /\ lastAction = "editDone"
    /\ Len(cards) >= 2
    /\ Len(cardsUndoHistory) >= 2
    /\ \E r \in BagToSet(inFlight) : r.op = "update"

----------------------------------------------------------------------------
(* The demo stack.                                                         *)

\* C20: on the demo stack (path "/") no step sends a create, update or
\* delete request or changes the remote table, no step is shuffle or
\* sendTopCardToRandom getting past its guard, and a step that changes the
\* card list is a load completing, the reload handler emptying the list
\* before it loads, sendTopCardToBottom or undo
C20_DemoStackReadOnly ==
    [][(stack = s_root) =>
         /\ \A r \in BagToSet(inFlight') : r.op = "load"
         /\ server' = server
         /\ created' = created
         /\ lastAction' \notin {"shuffle", "toRandom"}
         /\ (derive(cardsUndoHistory') # cards) =>
              (lastAction' \in {"loaded", "confirmReload", "toBottom", "undo"})
      ]_vars

\* on the demo stack a button has answered with the alert, after the top
\* card was sent to the bottom
C20_Witness ==
    /\ stack = s_root
    /\ modalWindow.kind = "alert"
    /\ Len(cards) >= 2
    /\ Len(cardsUndoHistory) >= 2

----------------------------------------------------------------------------
(* Remote failures.                                                        *)

\* the remote call of a storage operation has failed: the request was
\* rejected, or the table answered with an error body
RemoteFailure == {"failed", "errorBody"}

\* C21: a step in which the remote call of loadCards, updateCardText,
\* deleteCard or addCard fails leaves the undo history (so also the card
\* list) as it was, and the operation rejects: babysitAsyncAction's catch
\* sets the status to "ERROR"
C21_FailureChangesNothing ==
    [][(lastAction' \in RemoteFailure) =>
         /\ cardsUndoHistory' = cardsUndoHistory
         /\ statusMessage' = Str(s_ERROR)
      ]_vars

----------------------------------------------------------------------------
(* Requests in flight together.                                            *)

\* C22: when the loadCards call started last has completed and an older
\* call completes as the last one in flight, the card list stays as the
\* call started last, and the user since, have left it
C22_LastStartedLoadWins ==
    [][(/\ lastAction' = "loaded"
        /\ startedLast = LatestDone
        /\ loadsInFlight(inFlight') = {})
          => derive(cardsUndoHistory') = cards
      ]_vars

\* C23: whenever the status message is absent, no request started through
\* babysitAsyncAction is in flight
C23_NoStatusNothingPending ==
    IsUndef(statusMessage) => inFlight = EmptyBag

----------------------------------------------------------------------------
(* The modal window.                                                       *)

Dialogs == 1..MaxDialogs

IsPending(p) == p \in 1..Len(promises) /\ promises[p].state = "pending"

IsResolved(p) == p \in 1..Len(promises) /\ promises[p].state = "resolved"

\* C24: every promise that alert, confirm or prompt has returned is
\* eventually resolved, when the user dismisses each dialog that is
\* displayed
C24_EveryDialogPromiseResolves ==
    \A p \in Dialogs : IsPending(p) ~> IsResolved(p)

\* the value the claim gives for each way of dismissing a confirm or prompt
valueOfWay(type, way, typed) ==
    IF way \in {"ok", "enter"}
    THEN (IF type = "confirm" THEN Bool(TRUE) ELSE Str(typed))
    ELSE Undef

\* C25: a confirm or prompt that was dismissed has resolved with the value
\* of the way it was dismissed (true or the input's value at that moment on
\* OK and Enter, undefined on Cancel, Escape and a backdrop click); when the
\* awaiting caller is about to continue the modal is closed; and once the
\* queued reactions have run, the dialog asked for last, if it is still
\* pending, is the one on screen
C25_DismissValueAndCloseBeforeContinue ==
    /\ \A p \in 1..Len(promises) :
         (promises[p].state = "resolved" /\ promises[p].type # "alert")
         => /\ promises[p].way \in Ways
            /\ promises[p].value =
                 valueOfWay(promises[p].type, promises[p].way, promises[p].typed)
    /\ (microtasks # <<>> /\ Head(microtasks).job = "continuation")
         => data = Closed
    /\ (microtasks = <<>> /\ IsPending(Len(promises)))
         => data.promise = Len(promises)

\* a prompt was dismissed with OK after "b" was typed, the caller went on to
\* ask for a confirm, and that confirm is on screen with no reaction queued
C25_Witness ==
    /\ Len(promises) >= 2
    /\ promises[1].type = "prompt"
    /\ promises[1].state = "resolved"
    /\ promises[1].way = "ok"
    /\ promises[1].value = Str(<<"b">>)
    /\ promises[2].openedBy = "continuation"
    /\ promises[2].state = "pending"
    /\ microtasks = <<>>
    /\ data = [type |-> "confirm", promise |-> 2]

----------------------------------------------------------------------------
(* Text editing.                                                           *)

\* C26: the promise of edit is pending exactly while its resolve is the one
\* stored and the hook is editing; a promise that has resolved was resolved
\* by done with the text set last or by cancel with undefined; when no
\* promise is pending isEditing is false and no resolve is stored; and a
\* later done or cancel leaves every resolved promise as it is
C26_EditResolvesOnDoneOrCancel ==
    /\ [](\A p \in 1..Len(editPromises) :
            /\ (editPromises[p].state = "pending")
                 <=> (textEditing.resolveRef = p /\ isEditing(textEditing))
            /\ (editPromises[p].state = "resolved")
                 => \/ /\ editPromises[p].by = "done"
                       /\ editPromises[p].value = Str(editPromises[p].lastSet)
                    \/ /\ editPromises[p].by = "cancel"
                       /\ editPromises[p].value = Undef)
    /\ []((\A p \in 1..Len(editPromises) : editPromises[p].state # "pending")
            => (~isEditing(textEditing) /\ textEditing.resolveRef = 0))
    /\ [][\A p \in 1..Len(editPromises) :
            (editPromises[p].state = "resolved")
            => editPromises'[p] = editPromises[p]]_vars

\* in the version that derives isEditing from text: a first edit was
\* finished by done after "b" was typed, and a second one was cancelled
C26_Witness ==
    /\ Len(editPromises) = 2
    /\ editPromises[1].by = "done"
    /\ editPromises[1].value = Str(<<"b">>)
    /\ editPromises[2].by = "cancel"
    /\ editPromises[2].value = Undef
    /\ ~isEditing(textEditing)
    /\ textEditing.resolveRef = 0
    /\ textEditing.version = "text"

====
